---------------------------- MODULE Spec2Model ----------------------------
(***************************************************************************)
(* A model of RedditTrendDetector (src/main.py): one run of scan(), from   *)
(* the collection of posts over the monitored subreddits, through the      *)
(* priority sort, to the analysis of the top candidates and the summary.   *)
(*                                                                         *)
(* Text is modelled as sequences of one-character strings, so that the     *)
(* substring tests, lower(), split() and the slices of the source are      *)
(* computed rather than assumed.  The emoji prefixes of the path names     *)
(* are left out of the path names; nothing in the code reads them.         *)
(***************************************************************************)
EXTENDS Integers, Sequences, FiniteSets, TLC

(***************************************************************************)
(* Configuration set in __init__ and literals of scan().                   *)
(***************************************************************************)
HIGH_VELOCITY_THRESHOLD == 1500
BUYING_SIGNAL_VELOCITY == 300
NORMAL_VELOCITY == 600
\* priority += 1000 for posts with buying signals.
PRIORITY_BOOST == 1000
\* all_candidates[:30]
ANALYZE_LIMIT == 30
\* all_candidates[30:35]
MISSED_SHOWN == 5
\* len(post.title) > 100
TITLE_CAP == 100
\* comment.body[:100]
QUOTE_LEN == 100
\* len(quote_examples) < 3
MAX_QUOTES == 3
\* post.comments[:50]
COMMENT_WINDOW == 50
\* num_comments >= 20 in is_worth_analyzing
MIN_COMMENTS == 20
\* num_comments > 100 in determine_alert_path
ENGAGED_COMMENTS == 100
\* score >= 7 alerts; 6 <= score < 7 is medium
ALERT_SCORE == 7
MEDIUM_SCORE == 6
\* 0.5 <= hours_old <= 24, in seconds
MIN_AGE_SECONDS == 1800
MAX_AGE_SECONDS == 86400
SECONDS_PER_HOUR == 3600

(***************************************************************************)
(* Bounds of the model.                                                    *)
(***************************************************************************)
\* Length of the prefix of MONITORING_SUBREDDITS a run iterates over.
NumSubs == 2
\* Number of distinct post ids the content source can return.
MaxPosts == 2
\* Longest rising listing and longest hot listing returned for a subreddit.
MaxListing == 1
\* Largest number of candidates beyond ANALYZE_LIMIT in a collected pool.
MaxOver == 6
\* Longest comment list handed to check_buying_signals on its own.
MaxComments == 4
\* Largest number of lines in a scorer reply parsed on its own.
MaxLines == 3

(***************************************************************************)
(* Text constants of the source and the texts the content source returns.  *)
(***************************************************************************)
\* check_buying_signals: the phrase list (main.py 73-117), each phrase a sequence of characters.
buying_phrases ==
  << <<"o","n"," ","a"," ","s","h","i","r","t">>,
     <<"o","n"," ","a"," ","t","-","s","h","i","r","t">>,
     <<"o","n"," ","a"," ","t","s","h","i","r","t">>,
     <<"o","n"," ","a"," ","t"," ","s","h","i","r","t">>,
     <<"o","n"," ","a"," ","t","e","e">>,
     <<"o","n"," ","a"," ","t","e","e"," ","s","h","i","r","t">>,
     <<"o","n"," ","a"," ","t","e","e","s","h","i","r","t">>,
     <<"o","n"," ","m","y"," ","s","h","i","r","t">>,
     <<"o","n"," ","m","y"," ","t","-","s","h","i","r","t">>,
     <<"o","n"," ","a"," ","t","a","n","k">>,
     <<"o","n"," ","a"," ","h","o","o","d","i","e">>,
     <<"o","n"," ","m","e","r","c","h">>,
     <<"m","a","k","e"," ","t","h","i","s"," ","a"," ","s","h","i","r","t">>,
     <<"m","a","k","e"," ","t","h","i","s"," ","a"," ","t","-","s","h","i","r","t">>,
     <<"m","a","k","e"," ","t","h","i","s"," ","a"," ","t","e","e">>,
     <<"n","e","e","d","s"," ","t","o"," ","b","e"," ","a"," ","s","h","i","r","t">>,
     <<"n","e","e","d","s"," ","t","o"," ","b","e"," ","o","n"," ","a"," ","s","h","i","r","t">>,
     <<"n","e","e","d"," ","t","h","i","s"," ","o","n"," ","a">>,
     <<"p","u","t"," ","t","h","i","s"," ","o","n"," ","a">>,
     <<"g","e","t"," ","t","h","i","s"," ","o","n"," ","a">>,
     <<"s","o","m","e","o","n","e"," ","m","a","k","e"," ","t","h","i","s">>,
     <<"s","o","m","e","o","n","e"," ","p","u","t"," ","t","h","i","s">>,
     <<"p","l","e","a","s","e"," ","m","a","k","e"," ","t","h","i","s">>,
     <<"i","'","d"," ","w","e","a","r">>,
     <<"w","o","u","l","d"," ","w","e","a","r">>,
     <<"i","'","d"," ","b","u","y">>,
     <<"w","o","u","l","d"," ","b","u","y">>,
     <<"i","'","l","l"," ","t","a","k","e">>,
     <<"i","l","l"," ","t","a","k","e">>,
     <<"i"," ","w","a","n","t"," ","t","h","i","s">>,
     <<"i"," ","n","e","e","d"," ","t","h","i","s">>,
     <<"w","a","n","t"," ","o","n","e">>,
     <<"n","e","e","d"," ","o","n","e">>,
     <<"w","h","e","r","e"," ","c","a","n"," ","i">>,
     <<"w","h","e","r","e"," ","d","o"," ","i">>,
     <<"t","a","k","e"," ","m","y"," ","m","o","n","e","y">>,
     <<"s","h","u","t"," ","u","p"," ","a","n","d"," ","t","a","k","e">>,
     <<"t","h","r","o","w","i","n","g"," ","m","o","n","e","y">>,
     <<"1","0","/","1","0"," ","w","o","u","l","d"," ","b","u","y">>,
     <<"1","0","/","1","0"," ","w","o","u","l","d"," ","w","e","a","r">>,
     <<"w","o","u","l","d"," ","c","o","p">>,
     <<"i","n","s","t","a","n","t"," ","b","u","y">>,
     <<"i","n","s","t","a","b","u","y">>,
     <<"i","n","s","t","a"," ","b","u","y">>,
     <<"b","u","y","i","n","g"," ","t","h","i","s">>,
     <<"l","i","n","k"," ","t","o"," ","b","u","y">>,
     <<"l","i","n","k","?">>,
     <<"w","2","c">>,
     <<"w","h","e","r","e"," ","t","o"," ","c","o","p">>,
     <<"m","e","r","c","h"," ","i","d","e","a">>,
     <<"m","e","r","c","h"," ","p","o","t","e","n","t","i","a","l">>,
     <<"m","e","r","c","h","a","n","d","i","s","e"," ","t","h","i","s">>,
     <<"t","h","i","s"," ","i","s"," ","m","e","r","c","h">>,
     <<"p","e","r","f","e","c","t"," ","f","o","r"," ","m","e","r","c","h">>,
     <<"g","r","e","a","t"," ","m","e","r","c","h">>,
     <<"w","e","a","r"," ","t","h","e"," ","s","h","i","t"," ","o","u","t"," ","o","f">>,
     <<"w","e","a","r"," ","t","h","e"," ","h","e","l","l"," ","o","u","t"," ","o","f">>,
     <<"w","e","a","r"," ","t","h","i","s"," ","e","v","e","r","y","w","h","e","r","e">>,
     <<"w","e","a","r"," ","t","h","i","s"," ","d","a","i","l","y">>,
     <<"r","o","c","k"," ","t","h","i","s">>,
     <<"s","p","o","r","t"," ","t","h","i","s">>,
     <<"f","l","e","x"," ","t","h","i","s">>,
     <<"g","e","t","t","i","n","g"," ","t","h","i","s"," ","f","o","r">>,
     <<"b","u","y"," ","t","h","i","s"," ","f","o","r"," ","m","y">>,
     <<"g","i","f","t"," ","i","d","e","a">>,
     <<"p","e","r","f","e","c","t"," ","g","i","f","t">>,
     <<"c","h","r","i","s","t","m","a","s"," ","g","i","f","t">>,
     <<"b","i","r","t","h","d","a","y"," ","g","i","f","t">>,
     <<"t","h","i","s"," ","i","s"," ","m","y"," ","m","o","t","t","o">>,
     <<"m","y"," ","n","e","w"," ","m","o","t","t","o">>,
     <<"l","i","f","e"," ","m","o","t","t","o">>,
     <<"s","t","e","a","l","i","n","g"," ","t","h","i","s">>,
     <<"u","s","i","n","g"," ","t","h","i","s">>,
     <<"m","y"," ","n","e","w"," ","p","h","i","l","o","s","o","p","h","y">>,
     <<"t","h","i","s"," ","i","s"," ","m","e">>,
     <<"l","i","t","e","r","a","l","l","y"," ","m","e">>,
     <<"s","t","o","r","y"," ","o","f"," ","m","y"," ","l","i","f","e">>,
     <<"p","e","r","s","o","n","a","l"," ","a","t","t","a","c","k">>,
     <<"i"," ","f","e","e","l"," ","a","t","t","a","c","k","e","d">>,
     <<"c","a","l","l","i","n","g"," ","m","e"," ","o","u","t">>,
     <<"n","e","w"," ","f","a","v","o","r","i","t","e"," ","s","a","y","i","n","g">>,
     <<"q","u","o","t","e"," ","o","f"," ","t","h","e"," ","y","e","a","r">>,
     <<"n","e","e","d"," ","t","h","i","s"," ","e","n","e","r","g","y">>,
     <<"t","h","i","s"," ","e","n","e","r","g","y">>,
     <<"m","o","o","d">>,
     <<"s","p","i","r","i","t"," ","a","n","i","m","a","l">>,
     <<"m","y"," ","a","e","s","t","h","e","t","i","c">>,
     <<"v","i","b","e">> >>

\* is_worth_analyzing: copyrighted brands (main.py 340-341).
avoid ==
  << <<"d","i","s","n","e","y">>,
     <<"m","a","r","v","e","l">>,
     <<"n","i","k","e">>,
     <<"n","i","n","t","e","n","d","o">>,
     <<"p","o","k","e","m","o","n">>,
     <<"c","o","c","a","-","c","o","l","a">>,
     <<"m","c","d","o","n","a","l","d","s">>,
     <<"s","t","a","r"," ","w","a","r","s">>,
     <<"h","a","r","r","y"," ","p","o","t","t","e","r">>,
     <<"n","e","t","f","l","i","x">>,
     <<"s","p","o","t","i","f","y">> >>

\* is_worth_analyzing: news/tragedy terms (main.py 346-347).
skip_terms ==
  << <<"d","i","e","d">>,
     <<"k","i","l","l","e","d">>,
     <<"a","r","r","e","s","t","e","d">>,
     <<"c","o","n","v","i","c","t","e","d">>,
     <<"s","e","n","t","e","n","c","e","d">>,
     <<"b","r","e","a","k","i","n","g",":">>,
     <<"u","p","d","a","t","e",":">>,
     <<"m","e","g","a","t","h","r","e","a","d">>,
     <<"h","e","a","d","l","i","n","e",":">> >>

\* is_worth_analyzing: interrogatives (main.py 360).
question_words ==
  << <<"w","h","a","t">>,
     <<"w","h","y">>,
     <<"h","o","w">>,
     <<"w","h","e","n">>,
     <<"w","h","e","r","e">>,
     <<"w","h","o">> >>

\* is_worth_analyzing: personal stories (main.py 364).
personal_terms ==
  << <<"m","y"," ","d","a","d">>,
     <<"m","y"," ","m","o","m">>,
     <<"m","y"," ","w","i","f","e">>,
     <<"m","y"," ","h","u","s","b","a","n","d">>,
     <<"m","y"," ","k","i","d">>,
     <<"m","y"," ","s","o","n">>,
     <<"m","y"," ","d","a","u","g","h","t","e","r">> >>

\* is_worth_analyzing: news patterns (main.py 368).
news_patterns ==
  << <<"j","u","d","g","e"," ","f","i","n","d","s">>,
     <<"r","e","p","o","r","t",":">>,
     <<"s","t","u","d","y",":">>,
     <<"p","o","l","l",":">>,
     <<"c","o","u","r","t"," ","r","u","l","e","s">>,
     <<"l","a","w","s","u","i","t">>,
     <<"i","n","v","e","s","t","i","g","a","t","i","o","n">> >>

\* A post title: "Not today, Satan" (16 characters).
TitleClean ==
  <<"N","o","t"," ","t","o","d","a","y",","," ","S","a","t","a","n">>

\* A post title: "Disney adults are a different breed" (35 characters).
TitleBrand ==
  <<"D","i","s","n","e","y"," ","a","d","u","l","t","s"," ","a","r","e"," ","a"," ","d","i","f","f","e","r","e","n","t"," ","b","r","e","e","d">>

\* A post title: "Local man DIED doing what he loved" (34 characters).
TitleTragedy ==
  <<"L","o","c","a","l"," ","m","a","n"," ","D","I","E","D"," ","d","o","i","n","g"," ","w","h","a","t"," ","h","e"," ","l","o","v","e","d">>

\* A post title: "Plant dad" (9 characters).
TitleShort ==
  <<"P","l","a","n","t"," ","d","a","d">>

\* A post title: "Why is everyone like this? " (27 characters).
TitleQuestion ==
  <<"W","h","y"," ","i","s"," ","e","v","e","r","y","o","n","e"," ","l","i","k","e"," ","t","h","i","s","?"," ">>

\* A post title: "My Dad said this at dinner" (26 characters).
TitlePersonal ==
  <<"M","y"," ","D","a","d"," ","s","a","i","d"," ","t","h","i","s"," ","a","t"," ","d","i","n","n","e","r">>

\* A post title: "Study: coffee drinkers live forever" (35 characters).
TitleNews ==
  <<"S","t","u","d","y",":"," ","c","o","f","f","e","e"," ","d","r","i","n","k","e","r","s"," ","l","i","v","e"," ","f","o","r","e","v","e","r">>

\* A post title: "Running on coffee and anxiety and spite and the vague hope that the weekend shows up early this time" (100 characters).
TitleCap ==
  <<"R","u","n","n","i","n","g"," ","o","n"," ","c","o","f","f","e","e"," ","a","n","d"," ","a","n","x","i","e","t","y"," ","a","n","d"," ","s","p","i","t","e"," ","a","n","d"," ","t","h","e"," ","v","a","g","u","e"," ","h","o","p","e"," ","t","h","a","t"," ","t","h","e"," ","w","e","e","k","e","n","d"," ","s","h","o","w","s"," ","u","p"," ","e","a","r","l","y"," ","t","h","i","s"," ","t","i","m","e">>

\* A post title: "Running on coffee and anxiety and spite and the vague hope that the weekend shows up early this time!" (101 characters).
TitleLong ==
  <<"R","u","n","n","i","n","g"," ","o","n"," ","c","o","f","f","e","e"," ","a","n","d"," ","a","n","x","i","e","t","y"," ","a","n","d"," ","s","p","i","t","e"," ","a","n","d"," ","t","h","e"," ","v","a","g","u","e"," ","h","o","p","e"," ","t","h","a","t"," ","t","h","e"," ","w","e","e","k","e","n","d"," ","s","h","o","w","s"," ","u","p"," ","e","a","r","l","y"," ","t","h","i","s"," ","t","i","m","e","!">>

\* A comment body: "lol this is great".
BodyPlain ==
  <<"l","o","l"," ","t","h","i","s"," ","i","s"," ","g","r","e","a","t">>

\* A comment body: "need this on a shirt".
BodyNeed ==
  <<"n","e","e","d"," ","t","h","i","s"," ","o","n"," ","a"," ","s","h","i","r","t">>

\* A comment body: "I'd BUY this".
BodyBuy ==
  <<"I","'","d"," ","B","U","Y"," ","t","h","i","s">>

\* A comment body: "This is hands down the funniest thing I have seen all week and the whole office agrees with me, honestly I Would Wear it" (120 characters, the phrase past the first 100).
BodyLong ==
  <<"T","h","i","s"," ","i","s"," ","h","a","n","d","s"," ","d","o","w","n"," ","t","h","e"," ","f","u","n","n","i","e","s","t"," ","t","h","i","n","g"," ","I"," ","h","a","v","e"," ","s","e","e","n"," ","a","l","l"," ","w","e","e","k"," ","a","n","d"," ","t","h","e"," ","w","h","o","l","e"," ","o","f","f","i","c","e"," ","a","g","r","e","e","s"," ","w","i","t","h"," ","m","e",","," ","h","o","n","e","s","t","l","y"," ","I"," ","W","o","u","l","d"," ","W","e","a","r"," ","i","t">>

\* str.lower() on the ASCII letters.
UpperToLower ==
  ("A" :> "a") @@ ("B" :> "b") @@ ("C" :> "c") @@ ("D" :> "d") @@ ("E" :> "e") @@ ("F" :> "f") @@ ("G" :> "g") @@ ("H" :> "h") @@ ("I" :> "i") @@ ("J" :> "j") @@ ("K" :> "k") @@ ("L" :> "l") @@ ("M" :> "m") @@ ("N" :> "n") @@ ("O" :> "o") @@ ("P" :> "p") @@ ("Q" :> "q") @@ ("R" :> "r") @@ ("S" :> "s") @@ ("T" :> "t") @@ ("U" :> "u") @@ ("V" :> "v") @@ ("W" :> "w") @@ ("X" :> "x") @@ ("Y" :> "y") @@ ("Z" :> "z")
\* A scorer reply: 'SCORE: 9\nANALYSIS: Great hook\n'.
ReplyGreat ==
  <<"S","C","O","R","E",":"," ","9","\n","A","N","A","L","Y","S","I","S",":"," ","G","r","e","a","t"," ","h","o","o","k","\n">>

\* A scorer reply: 'TARGET: nurses\nSCORE: 7\nANALYSIS: Niche'.
ReplyGood ==
  <<"T","A","R","G","E","T",":"," ","n","u","r","s","e","s","\n","S","C","O","R","E",":"," ","7","\n","A","N","A","L","Y","S","I","S",":"," ","N","i","c","h","e">>

\* A scorer reply: 'SCORE: 6\nANALYSIS: Okay'.
ReplyMedium ==
  <<"S","C","O","R","E",":"," ","6","\n","A","N","A","L","Y","S","I","S",":"," ","O","k","a","y">>

\* A scorer reply: 'SCORE: 3'.
ReplyLow ==
  <<"S","C","O","R","E",":"," ","3">>

\* A scorer reply: 'Sorry, no idea'.
ReplyNoScore ==
  <<"S","o","r","r","y",","," ","n","o"," ","i","d","e","a">>

\* A scorer reply: 'SCORE: 8/10\nANALYSIS: Nice'.
ReplyBadScore ==
  <<"S","C","O","R","E",":"," ","8","/","1","0","\n","A","N","A","L","Y","S","I","S",":"," ","N","i","c","e">>

\* A line of a scorer reply: 'SCORE: 7'.
LineScore7 ==
  <<"S","C","O","R","E",":"," ","7">>

\* A line of a scorer reply: 'SCORE:3'.
LineScore3 ==
  <<"S","C","O","R","E",":","3">>

\* A line of a scorer reply: 'SCORE: 8/10'.
LineScoreBad ==
  <<"S","C","O","R","E",":"," ","8","/","1","0">>

\* A line of a scorer reply: 'ANALYSIS: Great hook: short '.
LineAnalysis ==
  <<"A","N","A","L","Y","S","I","S",":"," ","G","r","e","a","t"," ","h","o","o","k",":"," ","s","h","o","r","t"," ">>

\* A line of a scorer reply: 'VARIATIONS: mug, cap'.
LineVariations ==
  <<"V","A","R","I","A","T","I","O","N","S",":"," ","m","u","g",","," ","c","a","p">>

\* A line of a scorer reply: 'TARGET: nurses\r'.
LineTarget ==
  <<"T","A","R","G","E","T",":"," ","n","u","r","s","e","s","\r">>

\* A line of a scorer reply: 'NOTE: SCORE: 9'.
LineNote ==
  <<"N","O","T","E",":"," ","S","C","O","R","E",":"," ","9">>

LabelScore == <<"S","C","O","R","E",":">>
LabelAnalysis == <<"A","N","A","L","Y","S","I","S",":">>
LabelVariations == <<"V","A","R","I","A","T","I","O","N","S",":">>
LabelTarget == <<"T","A","R","G","E","T",":">>

RationaleApiError == <<"A","P","I"," ","e","r","r","o","r">>
RationaleFailed == <<"A","n","a","l","y","s","i","s"," ","f","a","i","l","e","d">>

\* MONITORING_SUBREDDITS (main.py 29-66).
MONITORING_SUBREDDITS ==
  << "targetedshirts",
     "brandnewsentence",
     "suspiciouslyspecific",
     "showerthoughts",
     "technicallythetruth",
     "rareinsults",
     "memes",
     "dankmemes",
     "me_irl",
     "meirl",
     "2meirl4meirl",
     "blackpeopletwitter",
     "whitepeopletwitter",
     "scottishpeopletwitter",
     "latinopeopletwitter",
     "antiwork",
     "nursing",
     "teachers",
     "programmerhumor",
     "talesfromretail",
     "talesfromyourserver",
     "kitchenconfidential",
     "gym",
     "running",
     "motorcycles",
     "gaming",
     "pcmasterrace",
     "tinder",
     "parenting",
     "daddit",
     "childfree",
     "nfl",
     "nba",
     "soccer",
     "formula1",
     "birdsarentreal",
     "giraffesdontexist",
     "wyomingdoesntexist",
     "murderedbywords",
     "clevercomebacks",
     "suicidebywords",
     "crazyideas",
     "unpopularopinion",
     "wallstreetbets",
     "superstonk",
     "cryptocurrency" >>
(***************************************************************************)
(* The posts the content source returns.                                   *)
(***************************************************************************)
\* A post as the content source returns it (the id is given by the listing);
\* age is time.time() - created_utc at the moment the post is looked at.
PostOf(title, score, age, num_comments, comments) ==
  [title |-> title, score |-> score, age |-> age,
   num_comments |-> num_comments, comments |-> comments]

\* The posts of a scan over several subreddits: a viral post nobody asks
\* for (velocity 1500), a post two comments ask for (600), a post one
\* comment asks for (400), a branded post, a stale post and a slow post.
RunKinds ==
  << PostOf(TitleClean, 3000, 7200, 10, <<>>),
     PostOf(TitleClean, 1200, 7200, 10, <<BodyNeed, BodyPlain, BodyBuy>>),
     PostOf(TitleClean, 800, 7200, 10, <<BodyBuy>>),
     PostOf(TitleBrand, 3000, 7200, 101, <<BodyNeed, BodyBuy>>),
     PostOf(TitleClean, 3000, 90000, 10, <<BodyBuy>>),
     PostOf(TitleClean, 200, 7200, 10, <<BodyBuy>>) >>

RunCatalog == {RunKinds[k] : k \in 1..Len(RunKinds)}

Titles ==
  {TitleClean, TitleCap, TitleBrand, TitleTragedy, TitleLong, TitleShort,
   TitleQuestion, TitlePersonal, TitleNews}

\* <<score, age in seconds>>: velocities 1500, 1499, 600, 599, 300, 299 at
\* two hours, 300 at half an hour, 1500 at 24 hours, and both ends of the
\* age window missed by one second.
ScoreAges ==
  { <<3000, 7200>>, <<2998, 7200>>, <<1200, 7200>>, <<1198, 7200>>,
    <<600, 7200>>, <<598, 7200>>, <<150, 1800>>, <<36000, 86400>>,
    <<3000, 1799>>, <<36000, 86401>> }

CommentCounts == {19, 20, 100, 101}

CommentLists ==
  { <<>>, <<BodyPlain>>, <<BodyBuy>>, <<BodyNeed, BodyPlain, BodyBuy>> }

FullCatalog ==
  { PostOf(t, sa[1], sa[2], n, cs) :
      t \in Titles, sa \in ScoreAges, n \in CommentCounts, cs \in CommentLists }

\* The comment bodies and the comment lists check_buying_signals is run on
\* by itself.
SignalBodies == {BodyPlain, BodyNeed, BodyBuy, BodyLong}

SignalLists == UNION {[1..n -> SignalBodies] : n \in 0..MaxComments}

AllCommentLists ==
  CommentLists \cup {RunKinds[k].comments : k \in 1..Len(RunKinds)}

(***************************************************************************)
(* String operations of the source.                                        *)
(***************************************************************************)
Min(a, b) == IF a <= b THEN a ELSE b

\* str.lower()
Lower(s) ==
  [i \in 1..Len(s) |-> IF s[i] \in DOMAIN UpperToLower THEN UpperToLower[s[i]] ELSE s[i]]

\* `t in s` on strings
Contains(s, t) ==
  \E i \in 0..(Len(s) - Len(t)) : SubSeq(s, i + 1, i + Len(t)) = t

\* any(term in s for term in terms)
AnyIn(terms, s) ==
  \E k \in 1..Len(terms) : Contains(s, terms[k])

\* len(s.split()): the number of maximal runs of non-blank characters
WordCount(s) ==
  Cardinality({i \in 1..Len(s) : s[i] # " " /\ (i = 1 \/ s[i - 1] = " ")})

\* s.strip().endswith('?')
EndsWithQuestion(s) ==
  \E i \in 1..Len(s) : s[i] = "?" /\ \A j \in (i + 1)..Len(s) : s[j] = " "

\* s[:n]
Prefix(s, n) == SubSeq(s, 1, Min(n, Len(s)))

(***************************************************************************)
(* check_buying_signals: the loop over the comments, with the counter and  *)
(* the quote list it carries.                                              *)
(***************************************************************************)
RECURSIVE buying_loop(_, _, _)
buying_loop(comments, i, acc) ==
  IF i > Len(comments) THEN acc
  ELSE IF AnyIn(buying_phrases, Lower(comments[i]))
       THEN buying_loop(comments, i + 1,
              [buying_count |-> acc.buying_count + 1,
               quote_examples |->
                 IF Len(acc.quote_examples) < MAX_QUOTES
                 THEN Append(acc.quote_examples, Prefix(comments[i], QUOTE_LEN))
                 ELSE acc.quote_examples])
       ELSE buying_loop(comments, i + 1, acc)

\* A check_buying_signals that counts only the comments it quotes.
check_buying_signals_quoted_only(comments) ==
  LET r == buying_loop(comments, 1, [buying_count |-> 0, quote_examples |-> <<>>])
  IN [buying_count |-> Len(r.quote_examples), quote_examples |-> r.quote_examples]

check_buying_signals(comments) ==
  buying_loop(comments, 1, [buying_count |-> 0, quote_examples |-> <<>>])

\* check_buying_signals(post.comments[:50]) for each comment list of the
\* model, computed once.
buying_signals_of ==
  [cs \in AllCommentLists |-> check_buying_signals(Prefix(cs, COMMENT_WINDOW))]

\* quick_comments = post.comments[:50], handed to check_buying_signals
comment_signals(post) == buying_signals_of[post.comments]

(***************************************************************************)
(* calculate_velocity: post.score / hours_old inside the age window, else  *)
(* 0.  age is time.time() - post.created_utc in seconds; the posts of the  *)
(* model have ages that divide score * 3600, so the quotient is exact.     *)
(***************************************************************************)
\* A calculate_velocity whose window leaves out its two ends.
calculate_velocity_exclusive(post) ==
  IF MIN_AGE_SECONDS < post.age /\ post.age < MAX_AGE_SECONDS
  THEN (post.score * SECONDS_PER_HOUR) \div post.age
  ELSE 0

calculate_velocity(post) ==
  IF MIN_AGE_SECONDS <= post.age /\ post.age <= MAX_AGE_SECONDS
  THEN (post.score * SECONDS_PER_HOUR) \div post.age
  ELSE 0

(***************************************************************************)
(* is_worth_analyzing: the exclusion rules on the title, then the paths.   *)
(***************************************************************************)
title_excluded(title) ==
  LET title_lower == Lower(title) IN
    \/ AnyIn(avoid, title_lower)
    \/ AnyIn(skip_terms, title_lower)
    \/ Len(title) > TITLE_CAP
    \/ WordCount(title) <= 2
    \/ (EndsWithQuestion(title) /\ AnyIn(question_words, title_lower))
    \/ AnyIn(personal_terms, title_lower)
    \/ AnyIn(news_patterns, title_lower)

qualifies(post, velocity, has_buying_signals) ==
  \/ velocity >= HIGH_VELOCITY_THRESHOLD
  \/ (has_buying_signals /\ velocity >= BUYING_SIGNAL_VELOCITY)
  \/ (velocity >= NORMAL_VELOCITY /\ post.num_comments >= MIN_COMMENTS)

\* The verdict of the exclusion rules for each title of the model, computed
\* once.
title_excluded_of == [t \in Titles |-> title_excluded(t)]

\* An is_worth_analyzing that lets high velocity through before the title
\* is looked at.
is_worth_analyzing_velocity_first(post, velocity, has_buying_signals) ==
  \/ velocity >= HIGH_VELOCITY_THRESHOLD
  \/ (~title_excluded_of[post.title] /\ qualifies(post, velocity, has_buying_signals))

is_worth_analyzing(post, velocity, has_buying_signals) ==
  IF title_excluded_of[post.title] THEN FALSE
  ELSE qualifies(post, velocity, has_buying_signals)

(***************************************************************************)
(* determine_alert_path: the list of the paths a post qualifies under.     *)
(***************************************************************************)
determine_alert_path(post, velocity, buying_count) ==
  (IF velocity >= HIGH_VELOCITY_THRESHOLD THEN <<"HIGH VELOCITY">> ELSE <<>>)
  \o (IF buying_count >= 2 /\ velocity >= BUYING_SIGNAL_VELOCITY
      THEN <<"BUYING SIGNALS">> ELSE <<>>)
  \o (IF buying_count >= 1 /\ velocity >= NORMAL_VELOCITY
      THEN <<"SIGNAL + VELOCITY">> ELSE <<>>)
  \o (IF post.num_comments > ENGAGED_COMMENTS /\ velocity >= NORMAL_VELOCITY
      THEN <<"HIGH ENGAGEMENT">> ELSE <<>>)

(***************************************************************************)
(* analyze_with_gpt: the parsing of the reply and the tuples it returns.   *)
(***************************************************************************)
IsSpace(c) == c \in {" ", "\n", "\t", "\r"}

\* s.strip()
RECURSIVE Strip(_)
Strip(s) ==
  IF s = <<>> THEN s
  ELSE IF IsSpace(s[1]) THEN Strip(Tail(s))
  ELSE IF IsSpace(s[Len(s)]) THEN Strip(SubSeq(s, 1, Len(s) - 1))
  ELSE s

\* s.startswith(p)
StartsWith(s, p) == Len(s) >= Len(p) /\ SubSeq(s, 1, Len(p)) = p

\* Index of the first occurrence of character c in s, or 0.
FirstIndex(s, c) ==
  IF \E i \in 1..Len(s) : s[i] = c
  THEN CHOOSE i \in 1..Len(s) : s[i] = c /\ \A j \in 1..(i - 1) : s[j] # c
  ELSE 0

\* s.split(c): the segments of s between the occurrences of character c
RECURSIVE Split(_, _)
Split(s, c) ==
  LET i == FirstIndex(s, c) IN
    IF i = 0 THEN <<s>>
    ELSE <<SubSeq(s, 1, i - 1)>> \o Split(SubSeq(s, i + 1, Len(s)), c)

\* s.split(c, 1)[1]: what follows the first occurrence of c
AfterFirst(s, c) == SubSeq(s, FirstIndex(s, c) + 1, Len(s))

DigitValue ==
  ("0" :> 0) @@ ("1" :> 1) @@ ("2" :> 2) @@ ("3" :> 3) @@ ("4" :> 4) @@
  ("5" :> 5) @@ ("6" :> 6) @@ ("7" :> 7) @@ ("8" :> 8) @@ ("9" :> 9)

RECURSIVE DigitsValue(_, _)
DigitsValue(s, acc) ==
  IF s = <<>> THEN acc ELSE DigitsValue(Tail(s), 10 * acc + DigitValue[s[1]])

\* int(s) on a stripped string: an optional sign and decimal digits; any
\* other text makes int() raise, which the caller turns into score 0.
IsInt(s) ==
  LET d == IF s # <<>> /\ s[1] \in {"+", "-"} THEN Tail(s) ELSE s IN
    d # <<>> /\ \A i \in 1..Len(d) : d[i] \in DOMAIN DigitValue

IntOf(s) ==
  IF s[1] = "-" THEN 0 - DigitsValue(Tail(s), 0)
  ELSE IF s[1] = "+" THEN DigitsValue(Tail(s), 0)
  ELSE DigitsValue(s, 0)

\* An int() that reads the leading digits and stops at the first other
\* character.
score_of_line_lenient(line) ==
  LET field == Strip(Split(line, ":")[2])
      digits == {n \in 0..Len(field) : \A i \in 1..n : field[i] \in DOMAIN DigitValue}
      longest == CHOOSE n \in digits : \A m \in digits : m <= n
  IN DigitsValue(SubSeq(field, 1, longest), 0)

\* try: score = int(line.split(':')[1].strip())  except: score = 0
score_of_line(line) ==
  LET field == Strip(Split(line, ":")[2]) IN
    IF IsInt(field) THEN IntOf(field) ELSE 0

\* The loop over analysis.split('\n') with the four values it carries.
RECURSIVE parse_lines(_, _, _)
parse_lines(lines, i, acc) ==
  IF i > Len(lines) THEN acc
  ELSE LET line == lines[i] IN
    parse_lines(lines, i + 1,
      IF StartsWith(line, LabelScore)
        THEN [acc EXCEPT !.score = score_of_line(line)]
      ELSE IF StartsWith(line, LabelAnalysis)
        THEN [acc EXCEPT !.analysis = Strip(AfterFirst(line, ":"))]
      ELSE IF StartsWith(line, LabelVariations)
        THEN [acc EXCEPT !.variations = Strip(AfterFirst(line, ":"))]
      ELSE IF StartsWith(line, LabelTarget)
        THEN [acc EXCEPT !.target = Strip(AfterFirst(line, ":"))]
      ELSE acc)

parse_reply(content) ==
  parse_lines(Split(content, "\n"), 1,
              [score |-> 0, analysis |-> <<>>, variations |-> <<>>, target |-> <<>>])

\* What analyze_with_gpt returns for a response of the scorer.  A response
\* is [raises, status_code, content].  The tuple has five fields on the
\* success path and four on the two failure paths.
analyze_with_gpt(response, buying_examples) ==
  IF response.raises
    THEN <<0, RationaleFailed, <<>>, <<>> >>
  ELSE IF response.status_code = 200
    THEN LET r == parse_reply(response.content) IN
           <<r.score, r.analysis, r.variations, r.target, buying_examples>>
  ELSE <<0, RationaleApiError, <<>>, <<>> >>

\* An insertion that puts c before the candidates of equal priority.
RECURSIVE insert_before_equal(_, _)
insert_before_equal(sorted, c) ==
  IF sorted = <<>> THEN <<c>>
  ELSE IF sorted[Len(sorted)].priority > c.priority THEN Append(sorted, c)
  ELSE Append(insert_before_equal(SubSeq(sorted, 1, Len(sorted) - 1), c),
              sorted[Len(sorted)])

\* all_candidates.sort(key=lambda x: x['priority'], reverse=True): a stable
\* sort, highest priority first; equal priorities keep their order.
RECURSIVE insert_by_priority(_, _)
insert_by_priority(sorted, c) ==
  IF sorted = <<>> THEN <<c>>
  ELSE IF sorted[Len(sorted)].priority >= c.priority THEN Append(sorted, c)
  ELSE Append(insert_by_priority(SubSeq(sorted, 1, Len(sorted) - 1), c),
              sorted[Len(sorted)])

RECURSIVE sort_loop(_, _, _)
sort_loop(cands, i, sorted) ==
  IF i > Len(cands) THEN sorted
  ELSE sort_loop(cands, i + 1, insert_by_priority(sorted, cands[i]))

sort_by_priority(cands) == sort_loop(cands, 1, <<>>)

\* An analysis loop over all of all_candidates.
top_candidates_unbounded(cands) == cands

\* all_candidates[:30]
top_candidates(cands) == SubSeq(cands, 1, Min(ANALYZE_LIMIT, Len(cands)))

\* A slice of the missed candidates that starts one candidate late.
missed_candidates_late(cands) ==
  SubSeq(cands, ANALYZE_LIMIT + 2, Min(ANALYZE_LIMIT + MISSED_SHOWN, Len(cands)))

\* all_candidates[30:35]
missed_candidates(cands) ==
  SubSeq(cands, ANALYZE_LIMIT + 1, Min(ANALYZE_LIMIT + MISSED_SHOWN, Len(cands)))

(***************************************************************************)
(* The content source and the scorer: what they return.                    *)
(***************************************************************************)
\* The listings subreddit.rising(limit=15) and subreddit.hot(limit=5) can
\* return: sequences of post ids, here of at most MaxListing ids.
Listings(ids) == UNION {[1..k -> ids] : k \in 0..MaxListing}

\* The responses of requests.post to the scorer: the call raises, or it
\* returns a status code and a body.
Response(raises, status_code, content) ==
  [raises |-> raises, status_code |-> status_code, content |-> content]

\* A scorer that is down, refuses, likes everything (score 9), never gives
\* a score, or gives 7, 6 or 3 to everything answers every call alike; any
\* other scorer answers each call freely.
Responses(scorer) ==
  CASE scorer = "down" -> {Response(TRUE, 0, <<>>)}
    [] scorer = "refusing" -> {Response(FALSE, 500, <<>>)}
    [] scorer = "keen" -> {Response(FALSE, 200, ReplyGreat)}
    [] scorer = "vague" -> {Response(FALSE, 200, ReplyNoScore)}
    [] scorer = "fair" -> {Response(FALSE, 200, ReplyGood)}
    [] scorer = "lukewarm" -> {Response(FALSE, 200, ReplyMedium)}
    [] scorer = "harsh" -> {Response(FALSE, 200, ReplyLow)}
    [] OTHER ->
         {Response(TRUE, 0, <<>>), Response(FALSE, 500, <<>>)}
         \cup {Response(FALSE, 200, c) : c \in {ReplyGood, ReplyMedium, ReplyNoScore}}

(***************************************************************************)
(* State.                                                                  *)
(***************************************************************************)
VARIABLES
  env,                 \* the surroundings of the run: the number of
                       \* subreddits iterated, the post ids, the scorer
  pc,                  \* position of scan(): fetch, posts, rank, score, done
  sub_idx,             \* index of sub_name in MONITORING_SUBREDDITS
  subreddits_checked,
  posts_to_check,      \* the ids of the posts of the listing still to visit
  processed_posts,     \* self.processed_posts
  all_candidates,
  collected,           \* all_candidates as it was when the sort began
  cand_idx,            \* index of candidate in all_candidates[:30]
  analyzed_count,
  high_score_count,
  posts_by_path,
  missed,              \* the candidates printed as not analyzed
  observed,            \* history: ids of the posts the loop body was begun for
  last_sub,            \* history: how the last subreddit ended
  evaluations,         \* history: calls of is_worth_analyzing per post id
  scorer_calls,        \* history: post ids analyze_with_gpt was called for
  alerts,              \* history: post ids send_discord_alert was called for
  last,                \* history: the last iteration of the analysis loop;
                       \* slept: time.sleep(1) has run since the latest
                       \* call of analyze_with_gpt
  q                    \* one post, comment list or reply taken through
                       \* qualification, extraction or parsing alone

runvars ==
  <<env, pc, sub_idx, subreddits_checked, posts_to_check, processed_posts,
    all_candidates, collected, cand_idx, analyzed_count, high_score_count,
    posts_by_path, missed, observed, last_sub, evaluations, scorer_calls,
    alerts, last>>

vars == <<runvars, q>>

LastSub(idx, outcome, slept) == [idx |-> idx, outcome |-> outcome, slept |-> slept]

Last(id, paths, call, score, analysis, tier, alert, counted, slept) ==
  [id |-> id, paths |-> paths, call |-> call, score |-> score,
   analysis |-> analysis, tier |-> tier, alert |-> alert,
   counted |-> counted, slept |-> slept]

NoLast == Last(0, <<>>, "none", 0, <<>>, "none", "none", FALSE, FALSE)

NoQ == [stage |-> "none"]

\* The state scan() starts from, in the surroundings e.
Start(e) ==
  /\ env = e
  /\ pc = "fetch"
  /\ sub_idx = 1
  /\ subreddits_checked = 0
  /\ posts_to_check = <<>>
  /\ processed_posts = {}
  /\ all_candidates = <<>>
  /\ collected = <<>>
  /\ cand_idx = 1
  /\ analyzed_count = 0
  /\ high_score_count = 0
  /\ posts_by_path = [high_velocity |-> 0, buying_signals |-> 0, normal |-> 0]
  /\ missed = <<>>
  /\ observed = {}
  /\ last_sub = LastSub(0, "none", FALSE)
  /\ evaluations = [id \in e.ids |-> 0]
  /\ scorer_calls = <<>>
  /\ alerts = <<>>
  /\ last = NoLast

Init ==
  /\ Start([subs |-> NumSubs, ids |-> 1..MaxPosts, scorer |-> "any"])
  /\ q = NoQ

(***************************************************************************)
(* scan(): the collection loop.                                            *)
(***************************************************************************)
\* A loop over the listing that never passes a post over.
already_processed_never(id, processed) == FALSE

\* if post.id in self.processed_posts: continue
already_processed(id, processed) == id \in processed

\* A scan that never records a post as processed.
mark_processed_forgets(processed, id) == processed

\* self.processed_posts.add(post.id)
mark_processed(processed, id) == processed \cup {id}

\* The candidate appended for a post that is worth analyzing.
\* A make_candidate that leaves the boost out of the priority.
make_candidate_unboosted(post, velocity, quick_buying_count, sub_name) ==
  [post |-> post,
   velocity |-> velocity,
   buying_signals |-> quick_buying_count,
   priority |-> velocity,
   subreddit |-> sub_name]

make_candidate(post, velocity, quick_buying_count, sub_name) ==
  [post |-> post,
   velocity |-> velocity,
   buying_signals |-> quick_buying_count,
   priority |-> velocity + (IF quick_buying_count > 0 THEN PRIORITY_BOOST ELSE 0),
   subreddit |-> sub_name]

\* The body of the loop over posts_to_check for one post, up to the append:
\* the velocity, the quick count of buying signals, whether
\* is_worth_analyzing was called and what it said, and the candidates after.
examine(post, sub_name, candidates) ==
  LET velocity == calculate_velocity(post)
      quick_buying_count == comment_signals(post).buying_count
      worth == is_worth_analyzing(post, velocity, quick_buying_count > 0)
  IN IF velocity > 0
     THEN [velocity |-> velocity,
           quick_buying_count |-> quick_buying_count,
           evaluated |-> TRUE,
           worth |-> worth,
           candidates |->
             IF worth
             THEN Append(candidates,
                         make_candidate(post, velocity, quick_buying_count, sub_name))
             ELSE candidates]
     ELSE [velocity |-> velocity, quick_buying_count |-> 0, evaluated |-> FALSE,
           worth |-> FALSE, candidates |-> candidates]

\* A loop over the subreddits that is left after the first pass.
LeaveAfterSubreddit ==
  /\ sub_idx' = sub_idx + 1
  /\ pc' = "rank"

\* The for loop over MONITORING_SUBREDDITS moves to the next subreddit, or
\* ends.
NextSubreddit ==
  /\ sub_idx' = sub_idx + 1
  /\ pc' = IF sub_idx + 1 > env.subs THEN "rank" ELSE "fetch"

\* An exception that leaves the loop over the subreddits.
ExceptOutsideLoop ==
  /\ sub_idx' = sub_idx
  /\ pc' = "rank"

\* except: continue / except Exception as e: print(...), both inside the
\* loop over the subreddits, so that the loop goes on.
ExceptInLoop == NextSubreddit

\* Both listings are fetched and merged, rising first.
FetchListings ==
  /\ pc = "fetch"
  /\ subreddits_checked' = subreddits_checked + 1
  /\ \E rising \in Listings(env.ids), hot \in Listings(env.ids) :
       posts_to_check' = rising \o hot
  /\ pc' = "posts"
  /\ last_sub' = LastSub(sub_idx, "fetched", FALSE)
  /\ UNCHANGED <<env, sub_idx, processed_posts, all_candidates, collected,
                 cand_idx, analyzed_count, high_score_count, posts_by_path,
                 missed, observed, evaluations, scorer_calls, alerts, last, q>>

\* rising() or hot() raises: the inner except continues with the next
\* subreddit, past the sleep.
FetchFails ==
  /\ pc = "fetch"
  /\ subreddits_checked' = subreddits_checked + 1
  /\ posts_to_check' = <<>>
  /\ ExceptInLoop
  /\ last_sub' = LastSub(sub_idx, "inaccessible", FALSE)
  /\ UNCHANGED <<env, processed_posts, all_candidates, collected, cand_idx,
                 analyzed_count, high_score_count, posts_by_path, missed,
                 observed, evaluations, scorer_calls, alerts, last, q>>

\* A post whose id is in processed_posts is passed over.
SkipProcessed ==
  /\ pc = "posts"
  /\ posts_to_check # <<>>
  /\ already_processed(Head(posts_to_check), processed_posts)
  /\ posts_to_check' = Tail(posts_to_check)
  /\ UNCHANGED <<env, pc, sub_idx, subreddits_checked, processed_posts,
                 all_candidates, collected, cand_idx, analyzed_count,
                 high_score_count, posts_by_path, missed, observed, last_sub,
                 evaluations, scorer_calls, alerts, last, q>>

\* The body of the loop over posts_to_check for a post not seen before.
ProcessPost ==
  /\ pc = "posts"
  /\ posts_to_check # <<>>
  /\ ~already_processed(Head(posts_to_check), processed_posts)
  /\ \E kind \in RunCatalog :
       LET post == kind @@ [id |-> Head(posts_to_check)]
           x == examine(post, MONITORING_SUBREDDITS[sub_idx], all_candidates)
       IN /\ all_candidates' = x.candidates
          /\ evaluations' =
               IF x.evaluated THEN [evaluations EXCEPT ![post.id] = @ + 1]
               ELSE evaluations
  /\ observed' = observed \cup {Head(posts_to_check)}
  /\ processed_posts' = mark_processed(processed_posts, Head(posts_to_check))
  /\ posts_to_check' = Tail(posts_to_check)
  /\ UNCHANGED <<env, pc, sub_idx, subreddits_checked, collected, cand_idx,
                 analyzed_count, high_score_count, posts_by_path, missed,
                 last_sub, scorer_calls, alerts, last, q>>

\* Fetching the comments of a post with velocity raises: the outer except
\* ends this subreddit, past processed_posts.add and past the sleep.
CommentsFail ==
  /\ pc = "posts"
  /\ posts_to_check # <<>>
  /\ ~already_processed(Head(posts_to_check), processed_posts)
  /\ \E kind \in RunCatalog : calculate_velocity(kind) > 0
  /\ observed' = observed \cup {Head(posts_to_check)}
  /\ posts_to_check' = <<>>
  /\ ExceptInLoop
  /\ last_sub' = LastSub(sub_idx, "raised", FALSE)
  /\ UNCHANGED <<env, subreddits_checked, processed_posts, all_candidates,
                 collected, cand_idx, analyzed_count, high_score_count,
                 posts_by_path, missed, evaluations, scorer_calls, alerts,
                 last, q>>

\* The listing is exhausted: time.sleep(1), then the next subreddit.
EndSubreddit ==
  /\ pc = "posts"
  /\ posts_to_check = <<>>
  /\ NextSubreddit
  /\ last_sub' = LastSub(sub_idx, "finished", TRUE)
  /\ UNCHANGED <<env, subreddits_checked, posts_to_check, processed_posts,
                 all_candidates, collected, cand_idx, analyzed_count,
                 high_score_count, posts_by_path, missed, observed,
                 evaluations, scorer_calls, alerts, last, q>>

(***************************************************************************)
(* scan(): the sort.                                                       *)
(***************************************************************************)
SortCandidates ==
  /\ pc = "rank"
  /\ collected' = all_candidates
  /\ all_candidates' = sort_by_priority(all_candidates)
  /\ pc' = "score"
  /\ UNCHANGED <<env, sub_idx, subreddits_checked, posts_to_check,
                 processed_posts, cand_idx, analyzed_count, high_score_count,
                 posts_by_path, missed, observed, last_sub, evaluations,
                 scorer_calls, alerts, last, q>>

(***************************************************************************)
(* scan(): the analysis loop over all_candidates[:30].                     *)
(***************************************************************************)
Candidate == top_candidates(all_candidates)[cand_idx]

\* The key of posts_by_path counted for the first path of alert_paths.
path_key(alert_paths) ==
  IF alert_paths[1] = "HIGH VELOCITY" THEN "high_velocity"
  ELSE IF alert_paths[1] = "BUYING SIGNALS" THEN "buying_signals"
  ELSE "normal"

\* A tier_of whose alert cutoff is strict.
tier_of_strict(score) ==
  IF score > ALERT_SCORE THEN "high"
  ELSE IF MEDIUM_SCORE <= score /\ score < ALERT_SCORE THEN "medium"
  ELSE "low"

\* The branch of the score: alert, medium or low.
tier_of(score) ==
  IF score >= ALERT_SCORE THEN "high"
  ELSE IF MEDIUM_SCORE <= score /\ score < ALERT_SCORE THEN "medium"
  ELSE "low"

\* An except that has the loop try the same candidate again.
retry_after_error(idx) == idx

\* except Exception as e: print(...), inside the loop over
\* all_candidates[:30]: the loop goes on with the next candidate.
next_after_error(idx) == idx + 1

\* Fetching the comments of the candidate raises: the except of the loop
\* prints the error and the loop goes on.
AnalyzeCommentsFail ==
  /\ pc = "score"
  /\ cand_idx <= Len(top_candidates(all_candidates))
  /\ cand_idx' = next_after_error(cand_idx)
  /\ last' = Last(Candidate.post.id, <<>>, "none", 0, <<>>, "none", "none", FALSE,
                  last.slept)
  /\ UNCHANGED <<env, pc, sub_idx, subreddits_checked, posts_to_check,
                 processed_posts, all_candidates, collected, analyzed_count,
                 high_score_count, posts_by_path, missed, observed, last_sub,
                 evaluations, scorer_calls, alerts, q>>

\* determine_alert_path returns no path: nothing is done for the candidate.
AnalyzeNoPath ==
  /\ pc = "score"
  /\ cand_idx <= Len(top_candidates(all_candidates))
  /\ LET post == Candidate.post
         signals == comment_signals(post)
         alert_paths ==
           determine_alert_path(post, Candidate.velocity, signals.buying_count)
     IN /\ alert_paths = <<>>
        /\ last' = Last(post.id, alert_paths, "none", 0, <<>>, "none", "none", FALSE,
                        last.slept)
  /\ cand_idx' = cand_idx + 1
  /\ UNCHANGED <<env, pc, sub_idx, subreddits_checked, posts_to_check,
                 processed_posts, all_candidates, collected, analyzed_count,
                 high_score_count, posts_by_path, missed, observed, last_sub,
                 evaluations, scorer_calls, alerts, q>>

\* The candidate has a path: analyze_with_gpt is called and its result is
\* unpacked into five names; a result of another length raises ValueError,
\* which the except of the loop catches.  For a score of 7 or more
\* send_discord_alert is called, and may raise into the same except.
AnalyzeCandidate ==
  /\ pc = "score"
  /\ cand_idx <= Len(top_candidates(all_candidates))
  /\ LET post == Candidate.post
         signals == comment_signals(post)
         alert_paths ==
           determine_alert_path(post, Candidate.velocity, signals.buying_count)
     IN /\ alert_paths # <<>>
        /\ scorer_calls' = Append(scorer_calls, post.id)
        /\ \E response \in Responses(env.scorer) :
             LET result == analyze_with_gpt(response, signals.quote_examples)
                 score == result[1]
                 counted_path ==
                   [posts_by_path EXCEPT ![path_key(alert_paths)] = @ + 1]
             IN IF Len(result) # 5
                THEN /\ last' = Last(post.id, alert_paths, "failed", score, result[2],
                                     "none", "none", FALSE, FALSE)
                     /\ UNCHANGED <<analyzed_count, high_score_count,
                                    posts_by_path, alerts>>
                ELSE IF score >= ALERT_SCORE
                THEN /\ posts_by_path' = counted_path
                     /\ alerts' = Append(alerts, post.id)
                     /\ \/ /\ high_score_count' = high_score_count + 1
                           /\ analyzed_count' = analyzed_count + 1
                           /\ last' = Last(post.id, alert_paths, "ok", score, result[2],
                                           tier_of(score), "sent", TRUE, TRUE)
                        \/ /\ last' = Last(post.id, alert_paths, "ok", score, result[2],
                                           tier_of(score), "failed", FALSE, FALSE)
                           /\ UNCHANGED <<high_score_count, analyzed_count>>
                ELSE /\ posts_by_path' = counted_path
                     /\ analyzed_count' = analyzed_count + 1
                     /\ last' = Last(post.id, alert_paths, "ok", score, result[2],
                                     tier_of(score), "none", TRUE, TRUE)
                     /\ UNCHANGED <<high_score_count, alerts>>
  /\ cand_idx' = IF last'.call = "failed" \/ last'.alert = "failed"
                 THEN next_after_error(cand_idx)
                 ELSE cand_idx + 1
  /\ UNCHANGED <<env, pc, sub_idx, subreddits_checked, posts_to_check,
                 processed_posts, all_candidates, collected, missed, observed,
                 last_sub, evaluations, q>>

\* The loop is over: the summary is printed, with up to five of the
\* candidates beyond the thirtieth.
Summary ==
  /\ pc = "score"
  /\ cand_idx > Len(top_candidates(all_candidates))
  /\ pc' = "done"
  /\ missed' = missed_candidates(all_candidates)
  /\ UNCHANGED <<env, sub_idx, subreddits_checked, posts_to_check,
                 processed_posts, all_candidates, collected, cand_idx,
                 analyzed_count, high_score_count, posts_by_path, observed,
                 last_sub, evaluations, scorer_calls, alerts, last, q>>

Next ==
  \/ FetchListings
  \/ FetchFails
  \/ SkipProcessed
  \/ ProcessPost
  \/ CommentsFail
  \/ EndSubreddit
  \/ SortCandidates
  \/ AnalyzeCommentsFail
  \/ AnalyzeNoPath
  \/ AnalyzeCandidate
  \/ Summary

Spec == Init /\ [][Next]_vars

\* scan() is straight-line code on one thread: whenever a step can be
\* taken, one is taken (every remote call returns or raises).
SpecFair == Spec /\ WF_vars(Next)

(***************************************************************************)
(* The analysis of a pool larger than the limit: scan() from the sort on,  *)
(* after a collection over all of MONITORING_SUBREDDITS that found n       *)
(* candidates, the j-th in the j-th subreddit.  The posts are the first    *)
(* `mix` kinds of RunKinds in turn.  The comments of a candidate were      *)
(* fetched during the collection.                                          *)
(***************************************************************************)
collected_pool(n, mix) ==
  [j \in 1..n |->
     examine(RunKinds[((j - 1) % mix) + 1] @@ [id |-> j],
             MONITORING_SUBREDDITS[j], <<>>).candidates[1]]

InitDispatch ==
  /\ \E n \in (ANALYZE_LIMIT - 1)..(ANALYZE_LIMIT + MaxOver), mix \in 1..3,
        scorer \in {"down", "refusing", "keen", "vague", "fair", "lukewarm", "harsh"} :
       /\ env = [subs |-> Len(MONITORING_SUBREDDITS), ids |-> 1..n, scorer |-> scorer]
       /\ all_candidates = collected_pool(n, mix)
       /\ processed_posts = 1..n
       /\ observed = 1..n
       /\ evaluations = [id \in 1..n |-> 1]
  /\ pc = "rank"
  /\ sub_idx = Len(MONITORING_SUBREDDITS) + 1
  /\ subreddits_checked = Len(MONITORING_SUBREDDITS)
  /\ posts_to_check = <<>>
  /\ collected = <<>>
  /\ cand_idx = 1
  /\ analyzed_count = 0
  /\ high_score_count = 0
  /\ posts_by_path = [high_velocity |-> 0, buying_signals |-> 0, normal |-> 0]
  /\ missed = <<>>
  /\ last_sub = LastSub(Len(MONITORING_SUBREDDITS), "finished", TRUE)
  /\ scorer_calls = <<>>
  /\ alerts = <<>>
  /\ last = NoLast
  /\ q = NoQ

NextDispatch ==
  \/ SortCandidates
  \/ AnalyzeNoPath
  \/ AnalyzeCandidate
  \/ Summary

SpecDispatch == InitDispatch /\ [][NextDispatch]_vars

(***************************************************************************)
(* The qualification of one post: the body of the collection loop up to    *)
(* the append, and for a post that was appended the paths the analysis     *)
(* loop computes for it, over every post of FullCatalog.                   *)
(***************************************************************************)
InitQualify ==
  /\ Start([subs |-> NumSubs, ids |-> 1..MaxPosts, scorer |-> "any"])
  /\ \E kind \in FullCatalog : q = [stage |-> "post", post |-> kind @@ [id |-> 1]]

\* scan(), lines 424-448, for q.post and an empty all_candidates.
Qualify ==
  /\ q.stage = "post"
  /\ LET x == examine(q.post, MONITORING_SUBREDDITS[1], <<>>)
     IN q' = [stage |-> "examined", post |-> q.post, velocity |-> x.velocity,
              quick_buying_count |-> x.quick_buying_count,
              evaluated |-> x.evaluated, worth |-> x.worth,
              candidates |-> x.candidates]
  /\ UNCHANGED runvars

\* scan(), lines 475-488, for the candidate appended for q.post.
Paths ==
  /\ q.stage = "examined"
  /\ q.candidates # <<>>
  /\ LET candidate == q.candidates[1]
         signals == comment_signals(candidate.post)
     IN q' = [stage |-> "paths", post |-> q.post, velocity |-> q.velocity,
              quick_buying_count |-> q.quick_buying_count,
              evaluated |-> q.evaluated, worth |-> q.worth,
              candidates |-> q.candidates,
              buying_count |-> signals.buying_count,
              alert_paths |->
                determine_alert_path(candidate.post, candidate.velocity,
                                     signals.buying_count)]
  /\ UNCHANGED runvars

NextQualify == Qualify \/ Paths

SpecQualify == InitQualify /\ [][NextQualify]_vars

(***************************************************************************)
(* check_buying_signals on its own, over every list of at most MaxComments *)
(* comments.                                                               *)
(***************************************************************************)
InitSignals ==
  /\ Start([subs |-> NumSubs, ids |-> 1..MaxPosts, scorer |-> "any"])
  /\ \E comments \in SignalLists : q = [stage |-> "comments", comments |-> comments]

\* buying_count, quote_examples = self.check_buying_signals(comments)
Extract ==
  /\ q.stage = "comments"
  /\ LET r == check_buying_signals(q.comments)
     IN q' = [stage |-> "signals", comments |-> q.comments,
              buying_count |-> r.buying_count,
              quote_examples |-> r.quote_examples]
  /\ UNCHANGED runvars

NextSignals == Extract

SpecSignals == InitSignals /\ [][NextSignals]_vars

(***************************************************************************)
(* The parsing of a successful reply on its own: a reply of at most        *)
(* MaxLines lines, and the same lines in another order.                    *)
(***************************************************************************)
ReplyLines ==
  {LineScore7, LineScore3, LineScoreBad, LineAnalysis, LineVariations,
   LineTarget, LineNote}

\* "\n".join(lines): the content of the reply with these lines
RECURSIVE Join(_)
Join(lines) ==
  IF lines = <<>> THEN <<>>
  ELSE IF Len(lines) = 1 THEN lines[1]
  ELSE lines[1] \o <<"\n">> \o Join(Tail(lines))

\* The orders the lines of a reply can come in.
Reorderings(lines) ==
  LET n == Len(lines) IN
    {[i \in 1..n |-> lines[p[i]]] :
       p \in {f \in [1..n -> 1..n] : \A i, j \in 1..n : f[i] = f[j] => i = j}}

InitParse ==
  /\ Start([subs |-> NumSubs, ids |-> 1..MaxPosts, scorer |-> "any"])
  /\ \E n \in 0..MaxLines : \E lines \in [1..n -> ReplyLines] :
       q = [stage |-> "reply", lines |-> lines]

\* analyze_with_gpt, lines 246-269, on the reply and on a reordering of it.
Parse ==
  /\ q.stage = "reply"
  /\ \E reordered \in Reorderings(q.lines) :
       q' = [stage |-> "parsed", lines |-> q.lines, reordered |-> reordered,
             result |-> parse_reply(Join(q.lines)),
             reordered_result |-> parse_reply(Join(reordered))]
  /\ UNCHANGED runvars

NextParse == Parse

SpecParse == InitParse /\ [][NextParse]_vars

(***************************************************************************)
(* Properties.                                                             *)
(***************************************************************************)
Range(seq) == {seq[i] : i \in 1..Len(seq)}

IsPrefix(s, t) == Len(s) <= Len(t) /\ SubSeq(t, 1, Len(s)) = s

Collecting == pc \in {"fetch", "posts"}

Collected == pc \in {"rank", "score", "done"}

\* C1: within one run of scan, is_worth_analyzing is evaluated at most once
\* for every post id, whatever the listings hold, also for a post that both
\* the rising and the hot listing of a subreddit return.
C1_EvaluatedAtMostOnce ==
  \A id \in env.ids : evaluations[id] <= 1

\* In the first subreddit, the next post of the merged listing is one that
\* was evaluated already: the hot listing repeats the rising one.
C1_Witness ==
  /\ pc = "posts"
  /\ sub_idx = 1
  /\ posts_to_check # <<>>
  /\ evaluations[Head(posts_to_check)] = 1

\* C2: in one run analyze_with_gpt is called at most 30 times, whatever the
\* size of the pool and however the scorer and the notifier fail.
C2_CallsWithinLimit ==
  Len(scorer_calls) <= ANALYZE_LIMIT

\* A run over a pool of more than 30 candidates has ended with 30 calls.
C2_Witness ==
  /\ pc = "done"
  /\ Len(all_candidates) > ANALYZE_LIMIT
  /\ Len(scorer_calls) = ANALYZE_LIMIT

\* C3: when the scorer call for a candidate fails (the request raises, or
\* the status is not 200), the candidate is recorded as scored, with score 0
\* and the rationale "API error" or "Analysis failed", in the low tier; no
\* error leaves the loop, and the loop goes on with the next candidate.
C3_FailureScoredZero ==
  [][(cand_idx' = cand_idx + 1 /\ last'.call = "failed")
       => /\ analyzed_count' = analyzed_count + 1
          /\ last'.score = 0
          /\ last'.analysis \in {RationaleApiError, RationaleFailed}
          /\ last'.tier = "low"
          /\ pc' = "score"]_vars

\* C4: a failure while fetching or processing one subreddit (a listing
\* fetch or a comment fetch raises) is caught at that subreddit: every
\* subreddit of the list is still fetched, and the candidates appended so
\* far are kept.
C4_FailureIsolated ==
  /\ [](Collected => subreddits_checked = env.subs)
  /\ [][Collecting => IsPrefix(all_candidates, all_candidates')]_vars

\* The second subreddit has been fetched after a comment fetch raised in the
\* first one, and a candidate found in the first one is still in the pool.
C4_Witness ==
  /\ pc = "posts"
  /\ sub_idx = 2
  /\ observed \ processed_posts # {}
  /\ all_candidates # <<>>
  /\ all_candidates[1].subreddit = MONITORING_SUBREDDITS[1]

\* The titles of the model that match an exclusion rule: a brand, a tragedy
\* term, 101 characters, two words, a question, a personal story, a news
\* pattern.
ExcludedTitles ==
  {TitleBrand, TitleTragedy, TitleLong, TitleShort, TitleQuestion,
   TitlePersonal, TitleNews}

\* C5: exclusion dominates: a post whose title matches an exclusion rule is
\* not eligible, whatever its velocity, its buying signals and its number of
\* comments; it is not appended to the pool and its paths are never computed
\* for the scorer.
C5_ExclusionDominates ==
  (q.stage \in {"examined", "paths"} /\ q.post.title \in ExcludedTitles)
    => /\ ~q.worth
       /\ q.candidates = <<>>
       /\ q.stage # "paths"

\* An excluded post with velocity 1500, two buying signals and 101 comments
\* has been examined.
C5_Witness ==
  /\ q.stage = "examined"
  /\ q.post.title \in ExcludedTitles
  /\ q.velocity >= HIGH_VELOCITY_THRESHOLD
  /\ q.quick_buying_count >= 2
  /\ q.post.num_comments > ENGAGED_COMMENTS

\* The four inclusion paths as the specification states them, for a post
\* with the given velocity, count of buying-signal comments and number of
\* comments.
PathA(velocity) == velocity >= HIGH_VELOCITY_THRESHOLD

PathB(velocity, count) == count >= 1 /\ velocity >= BUYING_SIGNAL_VELOCITY

PathC(velocity, count) == count >= 1 /\ velocity >= NORMAL_VELOCITY

PathD(velocity, comments) == comments > ENGAGED_COMMENTS /\ velocity >= NORMAL_VELOCITY

\* C6: a post that passes the exclusion stage is appended to the pool if and
\* only if at least one of the four inclusion paths holds: A velocity >=
\* 1500; B a buying signal and velocity >= 300; C a buying signal and
\* velocity >= 600; D more than 100 comments and velocity >= 600.
C6_EligibleIffSomePath ==
  (q.stage = "examined" /\ q.post.title \notin ExcludedTitles)
    => ((q.candidates # <<>>)
          <=> \/ PathA(q.velocity)
              \/ PathB(q.velocity, q.quick_buying_count)
              \/ PathC(q.velocity, q.quick_buying_count)
              \/ PathD(q.velocity, q.post.num_comments))

\* C7: path B is in the list of satisfied paths of every post with at least
\* one buying-signal comment and velocity >= 300, also with exactly one such
\* comment and a velocity below 600.
C7_PathBRecorded ==
  (q.stage = "paths" /\ q.buying_count >= 1 /\ q.velocity >= BUYING_SIGNAL_VELOCITY)
    => "BUYING SIGNALS" \in Range(q.alert_paths)

\* C8: the list determine_alert_path returns holds every path whose
\* condition holds and no other, each once, in the order A, B, C, D.
C8_PathsExactInOrder ==
  q.stage = "paths"
    => q.alert_paths =
         (IF PathA(q.velocity) THEN <<"HIGH VELOCITY">> ELSE <<>>)
         \o (IF PathB(q.velocity, q.buying_count) THEN <<"BUYING SIGNALS">> ELSE <<>>)
         \o (IF PathC(q.velocity, q.buying_count) THEN <<"SIGNAL + VELOCITY">> ELSE <<>>)
         \o (IF PathD(q.velocity, q.post.num_comments) THEN <<"HIGH ENGAGEMENT">> ELSE <<>>)

Ranked == pc \in {"score", "done"}

\* C9 as stated: in the ranked list every candidate with a buying-signal
\* count above 0 comes before every candidate with count 0, whatever the
\* two velocities.
C9_SignalsAlwaysFirst ==
  Ranked =>
    \A i, j \in 1..Len(all_candidates) :
      (all_candidates[i].buying_signals > 0 /\ all_candidates[j].buying_signals = 0)
        => i < j

\* C9, amended: in the ranked list a candidate with a buying-signal count
\* above 0 comes before every candidate with count 0 whose velocity is less
\* than its own velocity plus 1000.
C9_SignalsFirstWithinBoost ==
  Ranked =>
    \A i, j \in 1..Len(all_candidates) :
      (/\ all_candidates[i].buying_signals > 0
       /\ all_candidates[j].buying_signals = 0
       /\ all_candidates[j].velocity < all_candidates[i].velocity + PRIORITY_BOOST)
        => i < j

\* A candidate with buying signals, found after a faster candidate without,
\* has been ranked before it.
C9_Witness ==
  /\ Ranked
  /\ Len(collected) = 2
  /\ collected[2].buying_signals > 0
  /\ collected[1].buying_signals = 0
  /\ collected[1].velocity > collected[2].velocity
  /\ all_candidates = <<collected[2], collected[1]>>

\* The candidates of cands with priority p, in their order in cands.
WithPriority(cands, p) ==
  LET has_priority(c) == c.priority = p IN SelectSeq(cands, has_priority)

\* C10: after the sort no candidate comes after one of lower priority,
\* candidates of equal priority are in the order of their discovery, and
\* the ranked list is a permutation of the pool, the candidates unchanged.
C10_RankStableMonotonic ==
  Ranked =>
    /\ Len(all_candidates) = Len(collected)
    /\ \A i, j \in 1..Len(all_candidates) :
         i < j => all_candidates[i].priority >= all_candidates[j].priority
    /\ \A c \in Range(collected) \cup Range(all_candidates) :
         WithPriority(all_candidates, c.priority) = WithPriority(collected, c.priority)

\* The sort has moved candidates, and the pool holds distinct candidates of
\* equal priority.
C10_Witness ==
  /\ pc = "score"
  /\ all_candidates # collected
  /\ \E i, j \in 1..Len(collected) :
       /\ i < j
       /\ collected[i].priority = collected[j].priority
       /\ collected[i] # collected[j]

\* C11: calculate_velocity returns 0 for every post whose age is outside the
\* window of half an hour to 24 hours, and score / age in hours for every
\* post whose age is inside the window, both ends included: the velocity
\* times the age in seconds is the score times 3600.
C11_VelocityInWindow ==
  q.stage = "examined"
    => IF MIN_AGE_SECONDS <= q.post.age /\ q.post.age <= MAX_AGE_SECONDS
       THEN q.velocity * q.post.age = q.post.score * SECONDS_PER_HOUR
       ELSE q.velocity = 0

\* A post of score 150 that is exactly half an hour old has velocity 300.
C11_Witness ==
  /\ q.stage = "examined"
  /\ q.post.age = MIN_AGE_SECONDS
  /\ q.post.score = 150
  /\ q.velocity = 300

\* The comment bodies of the model that hold a phrase of the phrase list:
\* "need this on a shirt" (two phrases), "I'd BUY this" (in capitals) and
\* the long body ("Would Wear", past the 100th character).
MatchingBodies == {BodyNeed, BodyBuy, BodyLong}

\* The positions of the matching comments of a list.
Matching(comments) == {i \in 1..Len(comments) : comments[i] \in MatchingBodies}

\* The position of the k-th matching comment.
KthMatching(comments, k) ==
  CHOOSE i \in Matching(comments) :
    Cardinality({j \in Matching(comments) : j <= i}) = k

\* C12: check_buying_signals returns as count the number of comments whose
\* body holds a phrase in any capitalisation, a comment with several phrases
\* counted once, and as excerpts the first 100 characters of the first
\* min(3, count) matching comments in their order; (0, []) for no comments.
C12_CountAndExcerpts ==
  q.stage = "signals"
    => /\ q.buying_count = Cardinality(Matching(q.comments))
       /\ Len(q.quote_examples) = Min(MAX_QUOTES, q.buying_count)
       /\ \A k \in 1..Len(q.quote_examples) :
            LET body == q.comments[KthMatching(q.comments, k)]
            IN q.quote_examples[k] = SubSeq(body, 1, Min(QUOTE_LEN, Len(body)))
       /\ (q.comments = <<>> => q.buying_count = 0 /\ q.quote_examples = <<>>)

\* Four comments match, a plain one among them does not; the long body is
\* the third match and is quoted cut to 100 characters, the fourth match is
\* counted and not quoted.
C12_Witness ==
  /\ q.stage = "signals"
  /\ Len(q.comments) = MaxComments
  /\ q.buying_count > MAX_QUOTES
  /\ Len(q.quote_examples) = MAX_QUOTES
  /\ q.quote_examples[MAX_QUOTES] # BodyLong
  /\ Len(q.quote_examples[MAX_QUOTES]) = QUOTE_LEN
TextAnalysis == <<"G","r","e","a","t"," ","h","o","o","k",":"," ","s","h","o","r","t">>

TextVariations == <<"m","u","g",","," ","c","a","p">>

TextTarget == <<"n","u","r","s","e","s">>

\* The label of a line of the model: "score", "analysis", "variations",
\* "target", or "none" for a line the parser does not recognise.
LabelOf(line) ==
  CASE line \in {LineScore7, LineScore3, LineScoreBad} -> "score"
    [] line = LineAnalysis -> "analysis"
    [] line = LineVariations -> "variations"
    [] line = LineTarget -> "target"
    [] OTHER -> "none"

\* What a labelled line of the model says: 'SCORE: 8/10' is not a number.
ValueOf(line) ==
  CASE line = LineScore7 -> 7
    [] line = LineScore3 -> 3
    [] line = LineScoreBad -> 0
    [] line = LineAnalysis -> TextAnalysis
    [] line = LineVariations -> TextVariations
    [] line = LineTarget -> TextTarget

\* The value of the last line with the label, or the default without one.
LastLabelled(lines, label, default) ==
  LET at == {i \in 1..Len(lines) : LabelOf(lines[i]) = label} IN
    IF at = {} THEN default
    ELSE ValueOf(lines[CHOOSE i \in at : \A j \in at : j <= i])

Expected(lines) ==
  [score |-> LastLabelled(lines, "score", 0),
   analysis |-> LastLabelled(lines, "analysis", <<>>),
   variations |-> LastLabelled(lines, "variations", <<>>),
   target |-> LastLabelled(lines, "target", <<>>)]

NoLabelRepeated(lines) ==
  \A i, j \in 1..Len(lines) :
    (LabelOf(lines[i]) = LabelOf(lines[j]) /\ LabelOf(lines[i]) # "none") => i = j

\* C13 as stated: for every sequence of reply lines a missing or non-numeric
\* SCORE line gives score 0, missing ANALYSIS, VARIATIONS and TARGET lines
\* give empty strings, lines with other labels change nothing, and the
\* result is the same for every order of the lines.
C13_ParseAnyOrder ==
  q.stage = "parsed"
    => /\ ("score" \notin {LabelOf(q.lines[i]) : i \in 1..Len(q.lines)}
             => q.result.score = 0)
       /\ ("analysis" \notin {LabelOf(q.lines[i]) : i \in 1..Len(q.lines)}
             => q.result.analysis = <<>>)
       /\ ("variations" \notin {LabelOf(q.lines[i]) : i \in 1..Len(q.lines)}
             => q.result.variations = <<>>)
       /\ ("target" \notin {LabelOf(q.lines[i]) : i \in 1..Len(q.lines)}
             => q.result.target = <<>>)
       /\ q.result = q.reordered_result

\* C13, amended: parsing a successful reply never fails; each field is taken
\* from the last line with its label (score 0 when that SCORE line is not a
\* number), or is 0 or empty without such a line; lines with other labels
\* change nothing; and the result is the same for every order of the lines
\* when no label is repeated.
C13_ParseLastLabelWins ==
  q.stage = "parsed"
    => /\ q.result = Expected(q.lines)
       /\ q.reordered_result = Expected(q.reordered)
       /\ (NoLabelRepeated(q.lines) => q.result = q.reordered_result)

\* A reply of a TARGET line, a line with an unknown label and a SCORE line
\* has been parsed, and so has the same reply with the SCORE line first.
C13_Witness ==
  /\ q.stage = "parsed"
  /\ q.lines = <<LineTarget, LineNote, LineScore7>>
  /\ q.reordered = <<LineScore7, LineNote, LineTarget>>
  /\ q.result = [score |-> 7, analysis |-> <<>>, variations |-> <<>>,
                 target |-> TextTarget]
  /\ q.reordered_result = q.result

IdsWithPath ==
  LET top == SubSeq(all_candidates, 1, Min(ANALYZE_LIMIT, Len(all_candidates)))
      has_path(c) ==
        determine_alert_path(c.post, c.velocity, comment_signals(c.post).buying_count) # <<>>
      with_path == SelectSeq(top, has_path)
  IN [i \in 1..Len(with_path) |-> with_path[i].post.id]

C16_BeyondBudgetReported ==
  pc = "done" =>
    \A i \in 1..Len(all_candidates) :
      /\ i > 30 => /\ all_candidates[i].post.id \notin Range(scorer_calls)
                   /\ all_candidates[i] \in Range(missed)
      /\ (all_candidates[i].post.id \in Range(scorer_calls)
            \/ all_candidates[i] \in Range(missed))

\* C16, amended: every candidate ranked beyond position 30 is not sent to
\* the scorer; the candidates at positions 31 to 35 are reported in the
\* diagnostic output, in their order, and no other candidate is.
C16_FirstFiveBeyondReported ==
  pc = "done" =>
    /\ \A i \in 1..Len(all_candidates) :
         i > 30 => all_candidates[i].post.id \notin Range(scorer_calls)
    /\ Len(missed) = (IF Len(all_candidates) <= 30 THEN 0
                      ELSE IF Len(all_candidates) >= 35 THEN 5
                      ELSE Len(all_candidates) - 30)
    /\ \A k \in 1..Len(missed) : missed[k] = all_candidates[30 + k]

\* A run over a pool of 36 candidates has ended: five candidates are
\* reported, and the 36th is neither reported nor sent to the scorer.
C16_Witness ==
  /\ pc = "done"
  /\ Len(all_candidates) = 36
  /\ Len(missed) = 5
  /\ all_candidates[36] \notin Range(missed)
  /\ all_candidates[36].post.id \notin Range(scorer_calls)

\* The phase of the run: 1 COLLECTING, 2 RANKING, 3 SCORING, 4 DONE.
Phase(p) ==
  CASE p \in {"fetch", "posts"} -> 1
    [] p = "rank" -> 2
    [] p = "score" -> 3
    [] p = "done" -> 4

\* C17: every run goes through COLLECTING, RANKING, SCORING and DONE in
\* that order, once each, and reaches DONE whatever the content source, the
\* scorer and the notifier do; the sort happens once, after the last
\* subreddit, and no scorer call comes before it.
C17_PhasesInOrder ==
  /\ Phase(pc) = 1
  /\ [][Phase(pc') \in {Phase(pc), Phase(pc) + 1}]_vars
  /\ [][Phase(pc) = 2 => (Phase(pc') = 3 /\ all_candidates' = sort_by_priority(collected'))]_vars
  /\ [](Phase(pc) >= 2 => (sub_idx > env.subs /\ subreddits_checked = env.subs))
  /\ [](Phase(pc) <= 2 => scorer_calls = <<>>)
  /\ <>(pc = "done")

\* The run is done after a listing fetch raised, a scorer call failed and a
\* push of the notifier failed.
C17_Witness ==
  /\ pc = "done"
  /\ last_sub.outcome = "inaccessible"
  /\ Len(scorer_calls) = 2
  /\ Len(alerts) = 1
  /\ analyzed_count = 0
  /\ high_score_count = 0

\* C18: every post the loop over a listing has started to evaluate while
\* collecting is in processed_posts when the collection ends, whether or
\* not it qualified, also with velocity 0, and also when a remote call made
\* while evaluating it failed.
C18_ObservedAreMarked ==
  Collected => observed \subseteq processed_posts

\* C19: the scorer is called exactly once for each candidate taken from the
\* head of the ranked list: every candidate that passed is_worth_analyzing
\* has a satisfied path when the analysis loop recomputes its paths, so
\* that none is passed over without a scorer call.
C19_EveryConsumedScored ==
  /\ (pc \in {"score", "done"} /\ cand_idx > 1) => last.paths # <<>>
  /\ pc \in {"score", "done"} =>
       scorer_calls = [i \in 1..(cand_idx - 1) |-> all_candidates[i].post.id]

\* C20: between any two consecutive calls of the scorer in a run the sleep
\* of one second is executed, also when the earlier call failed and when
\* the push of the notifier that followed it failed.
C20_PacedCalls ==
  [][(scorer_calls # <<>> /\ scorer_calls' # scorer_calls) => last.slept]_vars

\* C21: after every subreddit the sleep of one second between subreddits is
\* executed before the fetch of the next subreddit begins, also after a
\* subreddit whose listing fetch failed or whose processing raised.
C21_PacedSubreddits ==
  [][(subreddits_checked >= 1 /\ subreddits_checked' = subreddits_checked + 1)
       => last_sub.slept]_vars

\* C22: when the run is done the counters of the summary agree with the
\* run: the posts analyzed are as many as the scorer calls made, the
\* high-potential count is the number of candidates scored 7 or more, and
\* the counts per path add up to the posts analyzed, whatever fails at the
\* scorer and the notifier.
C22_SummaryCountersAgree ==
  pc = "done" =>
    /\ analyzed_count = Len(scorer_calls)
    /\ high_score_count = Len(alerts)
    /\ posts_by_path.high_velocity + posts_by_path.buying_signals
         + posts_by_path.normal = analyzed_count

\* No element occurs twice in the sequence.
NoRepeat(seq) == \A i, j \in 1..Len(seq) : seq[i] = seq[j] => i = j

\* C23: every post id occurs at most once in the pool of candidates, so
\* that in one run no post is sent to the scorer twice and the notifier is
\* called at most once for a post id, whatever the listings hold and
\* whichever remote calls fail.
C23_PoolIdsUnique ==
  /\ NoRepeat([i \in 1..Len(all_candidates) |-> all_candidates[i].post.id])
  /\ NoRepeat(scorer_calls)
  /\ NoRepeat(alerts)

\* The listing of the second subreddit returns a post that is in the pool
\* already, found in the first subreddit.
C23_Witness ==
  /\ pc = "posts"
  /\ sub_idx = 2
  /\ posts_to_check # <<>>
  /\ \E i \in 1..Len(all_candidates) :
       /\ all_candidates[i].post.id = Head(posts_to_check)
       /\ all_candidates[i].subreddit = MONITORING_SUBREDDITS[1]

=============================================================================
